---- MODULE Spec2Model ----
(***************************************************************************)
(* A model of the terminal ray marcher of src/src/main.rs: the vector and  *)
(* colour algebra, the sphere distance field, Lambert shading, the         *)
(* luminance quantizer, the per-pixel march of Camera::show and the        *)
(* render / status / refresh / getch / apply loop of main.                 *)
(*                                                                         *)
(* An f32 is held as an integer: its IEEE 754 binary32 bit pattern without *)
(* the sign bit (exponent field * 2^23 + fraction), negated when the sign  *)
(* bit is set.  1.0 is 1065353216, -2.0 is -1073741824.  The order of the  *)
(* integers is the order of the numbers.  -0.0 is held as 0 and every NaN  *)
(* as the one value NaN: the program never looks at the sign of a zero or  *)
(* at the bits of a NaN.  +, -, *, / and sqrt round to nearest, ties to    *)
(* even, as the hardware does.                                             *)
(***************************************************************************)
EXTENDS Integers, Sequences, FiniteSets, TLC

(* ------------------------------------------------------------------ *)
(* Bounds of the model                                                 *)
(* ------------------------------------------------------------------ *)

\* the terminal size reported by getmaxyx (columns, rows)
Cols == 3
Rows == 2
\* the box the camera is kept in under Spec:
\* 0 <= x <= MaxX, 0 <= y <= MaxY, 0 <= z <= MaxZ
MaxX == 5
MaxY == 1
MaxZ == 1
\* under SpecAxis the camera only moves along the z axis, 0 <= z <= MaxDepth
MaxDepth == 50
\* colour channels of the quantizer inputs: k / 4 for |k| <= MaxChan
MaxChan == 6
\* the find_nearest inputs: scenes of up to MaxObjects spheres, MaxCalls calls
MaxObjects == 3
MaxCalls == 2

(* ------------------------------------------------------------------ *)
(* f32 arithmetic                                                      *)
(* ------------------------------------------------------------------ *)

\* powers of two
P7 == 2^7
P12 == 2^12
P18 == 2^18
P23 == 2^23

\* +infinity (exponent field 255, fraction 0) and the one NaN kept
InfBits == 255 * P23
NaN == 255 * P23 + 2^22

Abs(a) == IF a < 0 THEN -a ELSE a

Max2(a, b) == IF a < b THEN b ELSE a

Sgn(a) == IF a < 0 THEN -1 ELSE 1

IsNaN(a) == Abs(a) > InfBits

IsInf(a) == Abs(a) = InfBits

\* the number of binary digits of m, for 1 <= m < 2^30
BitLen(m) ==
    IF m < 32768
    THEN
      IF m < 256
      THEN
        IF m < 16
        THEN
          (IF m < 4 THEN (IF m < 2 THEN 1 ELSE 2) ELSE (IF m < 8 THEN 3 ELSE 4))
        ELSE
          (IF m < 64 THEN (IF m < 32 THEN 5 ELSE 6) ELSE (IF m < 128 THEN 7 ELSE 8))
      ELSE
        IF m < 4096
        THEN
          (IF m < 1024 THEN (IF m < 512 THEN 9 ELSE 10) ELSE (IF m < 2048 THEN 11 ELSE 12))
        ELSE
          (IF m < 16384 THEN (IF m < 8192 THEN 13 ELSE 14) ELSE 15)
    ELSE
      IF m < 8388608
      THEN
        IF m < 524288
        THEN
          (IF m < 131072 THEN (IF m < 65536 THEN 16 ELSE 17) ELSE (IF m < 262144 THEN 18 ELSE 19))
        ELSE
          (IF m < 2097152 THEN (IF m < 1048576 THEN 20 ELSE 21) ELSE (IF m < 4194304 THEN 22 ELSE 23))
      ELSE
        IF m < 134217728
        THEN
          (IF m < 33554432 THEN (IF m < 16777216 THEN 24 ELSE 25) ELSE (IF m < 67108864 THEN 26 ELSE 27))
        ELSE
          (IF m < 536870912 THEN (IF m < 268435456 THEN 28 ELSE 29) ELSE 30)

\* q with its last bit set when digits below it were lost (st)
Jam(q, st) == IF st /\ q % 2 = 0 THEN q + 1 ELSE q

\* the f32 of sign s, significand q <= 2^24 and exponent e >= -149 (q * 2^e)
Pack(s, q, e) ==
    IF e + 149 >= 254 THEN s * InfBits ELSE s * ((e + 149) * P23 + q)

\* s * m * 2^e rounded to the nearest f32, ties to even, for 0 <= m < 2^30; a last
\* bit of m that stands for lost digits needs m >= 2^25
Round(s, m, e) ==
    IF m = 0 THEN 0
    ELSE LET sh == Max2(BitLen(m) - 24, -149 - e)
         IN  IF sh <= 0 THEN Pack(s, m * 2^(-sh), e + sh)
             ELSE IF sh >= 31 THEN 0
             ELSE LET q == m \div 2^sh
                      r == m % 2^sh
                      h == 2^(sh - 1)
                  IN  Pack(s, IF r > h \/ (r = h /\ q % 2 = 1) THEN q + 1 ELSE q, e + sh)

\* significand and exponent of a finite f32 of magnitude g, as stored
RawM(g) == IF g >= P23 THEN P23 + (g % P23) ELSE g
RawE(g) == IF g >= P23 THEN g \div P23 - 150 ELSE -149

RECURSIVE Normalise(_, _)
Normalise(m, e) == IF m >= P23 THEN [m |-> m, e |-> e] ELSE Normalise(2 * m, e - 1)

\* significand in 2^23 .. 2^24 - 1 and exponent of a finite f32 other than 0
Unpack(a) ==
    IF Abs(a) >= P23 THEN [m |-> P23 + (Abs(a) % P23), e |-> Abs(a) \div P23 - 150]
    ELSE Normalise(Abs(a), -149)

\* i as f32, for |i| < 2^30
FromInt(n) == Round(Sgn(n), Abs(n), 0)

\* a + b for finite a, b other than 0, |a| >= |b|: the significands with three more
\* digits, the smaller one shifted to the exponent of the larger
AddOrdered(a, b) ==
    LET d == RawE(Abs(a)) - RawE(Abs(b))
        ma == RawM(Abs(a)) * 8
        mb == IF d >= 28 THEN 1
              ELSE Jam((RawM(Abs(b)) * 8) \div 2^d, (RawM(Abs(b)) * 8) % 2^d # 0)
    IN  Round(Sgn(a), IF (a < 0) = (b < 0) THEN ma + mb ELSE ma - mb, RawE(Abs(a)) - 3)

FAdd(a, b) ==
    IF IsNaN(a) \/ IsNaN(b) THEN NaN
    ELSE IF IsInf(a) THEN (IF IsInf(b) /\ a # b THEN NaN ELSE a)
    ELSE IF IsInf(b) \/ a = 0 THEN b
    ELSE IF b = 0 THEN a
    ELSE IF Abs(a) >= Abs(b) THEN AddOrdered(a, b) ELSE AddOrdered(b, a)

FNeg(a) == IF IsNaN(a) THEN NaN ELSE -a

FSub(a, b) == FAdd(a, FNeg(b))

\* the product of two significands, 48 digits, cut to its first 30 (in 12 digit limbs)
MulSig(ma, mb) ==
    LET lo == (ma % P12) * (mb % P12)
        mid == (ma \div P12) * (mb % P12) + (ma % P12) * (mb \div P12) + lo \div P12
        hi == (ma \div P12) * (mb \div P12) + mid \div P12
        low == (mid % P12) * P12 + (lo % P12)
    IN  Jam(hi * 64 + low \div P18, low % P18 # 0)

FMul(a, b) ==
    IF IsNaN(a) \/ IsNaN(b) THEN NaN
    ELSE IF IsInf(a) \/ IsInf(b)
         THEN (IF a = 0 \/ b = 0 THEN NaN ELSE Sgn(a) * Sgn(b) * InfBits)
    ELSE IF a = 0 \/ b = 0 THEN 0
    ELSE Round(Sgn(a) * Sgn(b), MulSig(Unpack(a).m, Unpack(b).m),
               Unpack(a).e + Unpack(b).e + 18)

RECURSIVE DivSig(_, _, _, _)
\* long division of significands, 7 digits a step: q the quotient so far, r the rest
DivSig(q, r, mb, k) ==
    IF k = 0 THEN Jam(q, r # 0)
    ELSE DivSig(q * P7 + (r * P7) \div mb, (r * P7) % mb, mb, k - 1)

FDiv(a, b) ==
    IF IsNaN(a) \/ IsNaN(b) THEN NaN
    ELSE IF IsInf(a) THEN (IF IsInf(b) THEN NaN ELSE Sgn(a) * Sgn(b) * InfBits)
    ELSE IF IsInf(b) THEN 0
    ELSE IF b = 0 THEN (IF a = 0 THEN NaN ELSE Sgn(a) * InfBits)
    ELSE IF a = 0 THEN 0
    ELSE Round(Sgn(a) * Sgn(b),
               DivSig(Unpack(a).m \div Unpack(b).m, Unpack(a).m % Unpack(b).m,
                      Unpack(b).m, 4),
               Unpack(a).e - Unpack(b).e - 28)

RECURSIVE IsqrtIter(_, _)
\* Newton's iteration from x >= sqrt(n) down to the largest s with s * s <= n
IsqrtIter(n, x) ==
    LET y == (x + n \div x) \div 2
    IN  IF y >= x THEN x ELSE IsqrtIter(n, y)

RECURSIVE SqrtSig(_, _, _)
\* k more binary digits of a square root: s the root so far, r the rest
SqrtSig(s, r, k) ==
    IF k = 0 THEN Jam(s, r # 0)
    ELSE IF 4 * r >= 4 * s + 1 THEN SqrtSig(2 * s + 1, 4 * r - (4 * s + 1), k - 1)
    ELSE SqrtSig(2 * s, 4 * r, k - 1)

\* sqrt(m * 2^e) for e even
SqrtEven(m, e) ==
    LET s == IsqrtIter(m, 8192)
    IN  Round(1, SqrtSig(s, m - s * s, 14), (e - 28) \div 2)

FSqrt(a) ==
    IF IsNaN(a) \/ a < 0 THEN NaN
    ELSE IF a = 0 \/ IsInf(a) THEN a
    ELSE IF Unpack(a).e % 2 = 0 THEN SqrtEven(Unpack(a).m, Unpack(a).e)
    ELSE SqrtEven(2 * Unpack(a).m, Unpack(a).e - 1)

\* a < b on f32: false when either side is NaN
FLt(a, b) == ~IsNaN(a) /\ ~IsNaN(b) /\ a < b

\* the f32 nearest to num / den, as a literal is read
F32(num, den) == FDiv(FromInt(num), FromInt(den))

\* constants of the program as f32
Zero == 0
Half == F32(1, 2)
One == FromInt(1)
Two == FromInt(2)
Three == FromInt(3)

(* ------------------------------------------------------------------ *)
(* Vector                                                              *)
(* ------------------------------------------------------------------ *)

Vec(a, b, c) == [x |-> a, y |-> b, z |-> c]

Vector_new == Vec(Zero, Zero, Zero)

Vector_scale(v, s) == Vec(FMul(v.x, s), FMul(v.y, s), FMul(v.z, s))
Vector_add(v, o) == Vec(FAdd(v.x, o.x), FAdd(v.y, o.y), FAdd(v.z, o.z))
Vector_sub(v, o) == Vec(FSub(v.x, o.x), FSub(v.y, o.y), FSub(v.z, o.z))
Vector_dot(v, o) == FAdd(FAdd(FMul(v.x, o.x), FMul(v.y, o.y)), FMul(v.z, o.z))
Vector_dotself(v) == Vector_dot(v, v)
Vector_magnitude(v) == FSqrt(Vector_dotself(v))
\* scale(1.0 / magnitude): a zero vector gives 0.0 * inf = NaN in every component
Vector_normalize(v) == Vector_scale(v, FDiv(One, Vector_magnitude(v)))

(* ------------------------------------------------------------------ *)
(* Color, Light, Pixel                                                 *)
(* ------------------------------------------------------------------ *)

Col(r, g, b) == [r |-> r, g |-> g, b |-> b]

Color_scale(c, s) == Col(FMul(c.r, s), FMul(c.g, s), FMul(c.b, s))
Color_add(c, o) == Col(FAdd(c.r, o.r), FAdd(c.g, o.g), FAdd(c.b, o.b))

WHITE == Col(One, One, One)
RED == Col(One, Zero, Zero)
GREEN == Col(Zero, One, Zero)
BLUE == Col(Zero, Zero, One)

CHARMAP == <<".", "-", "+", "*", "X", "M">>

Pixel_default == " "

\* `a as usize`: NaN and negatives give 0, the fraction is cut off; a value of
\* 2^30 or more (up to usize::MAX, where the cast saturates) is held as 2^30
AsUsize(a) ==
    IF IsNaN(a) \/ a < One THEN 0
    ELSE IF a >= 157 * P23 THEN 2^30
    ELSE IF Unpack(a).e >= 0 THEN Unpack(a).m * 2^Unpack(a).e
    ELSE Unpack(a).m \div 2^(-Unpack(a).e)

\* a wrong lookup: an index past the end is clamped to the last glyph
CharmapGetClamped(idx) ==
    IF idx < Len(CHARMAP) THEN <<CHARMAP[idx + 1]>> ELSE <<CHARMAP[Len(CHARMAP)]>>

\* CHARMAP.get(idx): None is the empty sequence, Some(c) is <<c>>
CharmapGet(idx) == IF idx < Len(CHARMAP) THEN <<CHARMAP[idx + 1]>> ELSE <<>>

\* col, the brightness (r + g + b) / 3.0 of a colour
Brightness(color) == FDiv(FAdd(FAdd(color.r, color.g), color.b), Three)

Pixel_new(color) ==
    LET got == CharmapGet(AsUsize(FMul(Brightness(color), FromInt(Len(CHARMAP)))))
    IN  IF got # <<>> THEN got[1] ELSE Pixel_default

(* ------------------------------------------------------------------ *)
(* Displayable objects: Sphere                                         *)
(* ------------------------------------------------------------------ *)

Sphere(c, rad, col) == [center |-> c, radius |-> rad, color |-> col]

Light(p, col) == [position |-> p, color |-> col]

clamp(val, min, max) ==
    IF FLt(val, min) THEN min
    ELSE IF FLt(max, val) THEN max
    ELSE val

Sphere_get_normal(self, point) == Vector_normalize(Vector_sub(point, self.center))

\* the distance half of the pair (self, distance) that Sphere::distance returns
Sphere_distance(self, point) ==
    FSub(Vector_magnitude(Vector_sub(self.center, point)), self.radius)

\* the literals 0.3, 0.5 and 0.1
Ambient == F32(3, 10)
Diffuse == F32(5, 10)
HitThreshold == F32(1, 10)

\* the Lambert term of one light at a point of the sphere
Lambert(self, point, light) ==
    clamp(Vector_dot(Vector_normalize(Vector_sub(light.position, point)),
                     Sphere_get_normal(self, point)), Zero, One)

RECURSIVE ShadeLights(_, _, _, _, _)
\* the `for light in lights` loop of Sphere::shade from light k on
ShadeLights(self, point, lights, k, color) ==
    IF k > Len(lights) THEN color
    ELSE ShadeLights(self, point, lights, k + 1,
             Color_add(color,
                 Color_scale(lights[k].color, FMul(Lambert(self, point, lights[k]), Diffuse))))

Sphere_shade(self, ray, point, lights) ==
    ShadeLights(self, point, lights, 1, Color_scale(self.color, Ambient))

(* ------------------------------------------------------------------ *)
(* Camera                                                              *)
(* ------------------------------------------------------------------ *)

\* f32::consts::PI
PI == 1078530011

\* f32::tan, which is tanf of the C library, on the angles fov / 180 * PI / 2 of
\* fov = 1.0, 2.0 .. 179.0: TanfArgs[d] is the angle of fov = d, TanfValues[d]
\* the tangent glibc returns for it
TanfArgs ==
    <<1007614518, 1016003126, 1020688209, 1024391734, 1026734275, 1029076817, 1031419358,
       1032780342, 1033951612, 1035122883, 1036294153, 1037465425, 1038636695, 1039807966,
       1040583314, 1041168950, 1041754585, 1042340220, 1042925855, 1043511491, 1044097126,
       1044682761, 1045268397, 1045854033, 1046439668, 1047025303, 1047610939, 1048196574,
       1048679105, 1048971922, 1049264740, 1049557558, 1049850375, 1050143193, 1050436011,
       1050728828, 1051021646, 1051314463, 1051607281, 1051900099, 1052192916, 1052485734,
       1052778552, 1053071369, 1053364187, 1053657005, 1053949822, 1054242641, 1054535458,
       1054828276, 1055121093, 1055413911, 1055706728, 1055999547, 1056292363, 1056585182,
       1056877999, 1057067713, 1057214121, 1057360530, 1057506939, 1057653348, 1057799756,
       1057946166, 1058092574, 1058238983, 1058385392, 1058531801, 1058678209, 1058824619,
       1058971027, 1059117436, 1059263845, 1059410254, 1059556662, 1059703071, 1059849480,
       1059995889, 1060142298, 1060288707, 1060435115, 1060581524, 1060727933, 1060874342,
       1061020750, 1061167160, 1061313568, 1061459977, 1061606386, 1061752795, 1061899204,
       1062045613, 1062192021, 1062338430, 1062484840, 1062631249, 1062777656, 1062924066,
       1063070475, 1063216884, 1063363292, 1063509701, 1063656110, 1063802519, 1063948927,
       1064095336, 1064241745, 1064388155, 1064534562, 1064680971, 1064827381, 1064973790,
       1065120198, 1065266607, 1065383116, 1065456321, 1065529524, 1065602729, 1065675934,
       1065749138, 1065822342, 1065895547, 1065968751, 1066041956, 1066115160, 1066188364,
       1066261569, 1066334774, 1066407977, 1066481182, 1066554387, 1066627591, 1066700795,
       1066774000, 1066847204, 1066920409, 1066993613, 1067066817, 1067140022, 1067213227,
       1067286431, 1067359635, 1067432840, 1067506044, 1067579249, 1067652453, 1067725657,
       1067798862, 1067872066, 1067945270, 1068018475, 1068091679, 1068164884, 1068238088,
       1068311292, 1068384497, 1068457702, 1068530906, 1068604110, 1068677315, 1068750519,
       1068823723, 1068896928, 1068970132, 1069043337, 1069116541, 1069189745, 1069262950,
       1069336155, 1069409358, 1069482563, 1069555768, 1069628972, 1069702176, 1069775381,
       1069848585, 1069921790, 1069994994, 1070068198 >>
TanfValues ==
    <<1007614756, 1016004078, 1020691421, 1024395542, 1026741714, 1029089676, 1031439785,
       1032795595, 1033973341, 1035152706, 1036333873, 1037517029, 1038702355, 1039890042,
       1040633834, 1041230321, 1041828272, 1042427784, 1043028956, 1043631888, 1044236677,
       1044843426, 1045452237, 1046063215, 1046676462, 1047292087, 1047910198, 1048530904,
       1048865159, 1049178275, 1049492860, 1049808972, 1050126668, 1050446012, 1050767065,
       1051089888, 1051414549, 1051741109, 1052069640, 1052400207, 1052732880, 1053067732,
       1053404835, 1053744263, 1054086093, 1054430404, 1054777274, 1055126789, 1055479029,
       1055834082, 1056192036, 1056552983, 1056917015, 1057124419, 1057309666, 1057496605,
       1057685285, 1057875764, 1058068092, 1058262331, 1058458536, 1058656769, 1058857091,
       1059059570, 1059264266, 1059471252, 1059680598, 1059892376, 1060106661, 1060323534,
       1060543072, 1060765362, 1060990488, 1061218540, 1061449610, 1061683798, 1061921200,
       1062161922, 1062406070, 1062653757, 1062905096, 1063160212, 1063419227, 1063682274,
       1063949485, 1064221008, 1064496983, 1064777569, 1065062925, 1065353216, 1065500918,
       1065651267, 1065804356, 1065960289, 1066119169, 1066281103, 1066446204, 1066614598,
       1066786407, 1066961763, 1067140804, 1067323677, 1067510534, 1067701538, 1067896855,
       1068096667, 1068301161, 1068510538, 1068725002, 1068944781, 1069170110, 1069401233,
       1069638413, 1069881932, 1070132086, 1070389190, 1070653570, 1070925597, 1071205641,
       1071494104, 1071791422, 1072098059, 1072414502, 1072741288, 1073078975, 1073428177,
       1073765689, 1073952816, 1074146756, 1074347930, 1074556778, 1074773778, 1074999454,
       1075234378, 1075479162, 1075734485, 1076001078, 1076279751, 1076571393, 1076876976,
       1077197567, 1077534360, 1077888673, 1078261958, 1078655854, 1079072169, 1079512949,
       1079980497, 1080477389, 1081006570, 1081571389, 1082153041, 1082477093, 1082825588,
       1083201464, 1083608150, 1084049661, 1084530739, 1085057044, 1085635369, 1086273912,
       1086982719, 1087774200, 1088663836, 1089671284, 1090670400, 1091333663, 1092106970,
       1093020323, 1094115703, 1095453855, 1097125785, 1099091078, 1100523048, 1102527224,
       1105532685, 1108918551, 1113925888, 1122315575 >>
Tanf(a) == TanfValues[CHOOSE d \in 1 .. Len(TanfArgs) : TanfArgs[d] = a]

Camera_range(self) ==
    FDiv(FDiv(FromInt(self.w), Two),
         Tanf(FDiv(FMul(FDiv(self.fov, FromInt(180)), PI), Two)))

\* None of the fold in find_nearest
None == [obj |-> 0, dist |-> 0]

\* a wrong closure: `<=` in place of `<`, so that the last of equals wins
FoldStepLastOfEquals(min, obj_a, dist_a) ==
    IF min = None THEN [obj |-> obj_a, dist |-> dist_a]
    ELSE IF ~FLt(min.dist, dist_a) THEN [obj |-> obj_a, dist |-> dist_a]
    ELSE min

\* the closure of the fold: min the accumulator, (obj_a, dist_a) the next pair
FoldStep(min, obj_a, dist_a) ==
    IF min = None THEN [obj |-> obj_a, dist |-> dist_a]
    ELSE IF FLt(dist_a, min.dist) THEN [obj |-> obj_a, dist |-> dist_a]
    ELSE min

RECURSIVE FoldNearest(_, _, _, _)
\* the fold of find_nearest over objects k .. Len(objects), min the accumulator
FoldNearest(objects, point, k, min) ==
    IF k > Len(objects) THEN min
    ELSE FoldNearest(objects, point, k + 1,
             FoldStep(min, k, Sphere_distance(objects[k], point)))

\* unwrap() of None panics
Panic == [obj |-> -1, dist |-> 0]

\* a wrong end of the fold: unwrap_or_default in place of unwrap
UnwrapOrDefault(min) == min

Unwrap(min) == IF min = None THEN Panic ELSE min

Camera_find_nearest(scene, point) == Unwrap(FoldNearest(scene.objects, point, 1, None))

\* the ray of pixel (i, j)
PixelRay(self, i, j) ==
    [origin |-> self.position,
     direction |-> Vec(FSub(FromInt(i), FDiv(FromInt(self.w), Two)),
                       FSub(FromInt(j), FDiv(FromInt(self.h), Two)),
                       Camera_range(self))]

MaxSteps == 10

\* a wrong advance: the step is taken from the ray's origin, not from the point
AdvanceFromOrigin(ray, point, dist) ==
    Vector_add(ray.origin,
               Vector_scale(ray.direction, FDiv(dist, Vector_magnitude(ray.direction))))

\* point.add(ray.direction.scale(dist / ray.direction.magnitude()))
Advance(ray, point, dist) ==
    Vector_add(point,
               Vector_scale(ray.direction, FDiv(dist, Vector_magnitude(ray.direction))))

\* Camera::show: the march of the last pixel (its `pixel`, whether it hit, and the
\* point, nearest object and distance of each find_nearest call)
VARIABLE march

\* a wrong start: `pixel` declared outside the pixel loop and never reset, so that a
\* pixel that records no hit keeps the glyph of the pixel before it
PixelCarried == march.pixel

\* the value of `pixel` when the march of a pixel begins
PixelInit == Pixel_default

RECURSIVE March(_, _, _, _, _)
\* the `for step in 0..10` loop of Camera::show from `step` on; the result holds
\* the pixel, whether unwrap panicked, and one entry per find_nearest call
March(scene, ray, point, step, trace) ==
    IF step >= MaxSteps
    THEN [pixel |-> PixelInit, hit |-> FALSE, panic |-> FALSE, trace |-> trace]
    ELSE LET near == Camera_find_nearest(scene, point)
             seen == Append(trace, [point |-> point, obj |-> near.obj, dist |-> near.dist])
         IN  IF near = Panic
             THEN [pixel |-> PixelInit, hit |-> FALSE, panic |-> TRUE, trace |-> seen]
             ELSE IF FLt(near.dist, HitThreshold)
             THEN [pixel |-> Pixel_new(Sphere_shade(scene.objects[near.obj], ray, point,
                                                    scene.lights)),
                   hit |-> TRUE, panic |-> FALSE, trace |-> seen]
             ELSE LET next == Advance(ray, point, near.dist)
                  IN  March(scene, ray, next, step + 1, seen)

\* the body of the pixel loop of Camera::show for pixel (i, j)
ShowPixelResult(self, scene, i, j) ==
    March(scene, PixelRay(self, i, j), self.position, 0, <<>>)

StartupScene ==
    [objects |-> << Sphere(Vec(Zero, Zero, FromInt(50)), FromInt(5), RED),
                    Sphere(Vec(FromInt(-20), Zero, FromInt(30)), FromInt(2), RED) >>,
     lights |-> << Light(Vec(FromInt(-5), FromInt(-20), FromInt(10)), WHITE) >>]

StartupCamera(cols, rows) ==
    [w |-> cols, h |-> rows, fov |-> FromInt(30), position |-> Vector_new]

(* ------------------------------------------------------------------ *)
(* The main loop                                                       *)
(* ------------------------------------------------------------------ *)

VARIABLES
    scene,      \* main: the Scene (objects, lights)
    screen,     \* main: the Camera `screen` (w, h, fov, position)
    pc,         \* where control is
    i, j,       \* Camera::show: the indices of the pixel loop
    window,     \* ncurses' stdscr: the character of each cell (column, row)
    grid,       \* history: the glyph mvaddch last wrote to each cell (i, j)
    status,     \* history: the string last given to mvaddstr
    display,    \* the terminal: the characters refresh last put on it
    ch,         \* main: the key getch returned
    writes,     \* history: mvaddch calls per cell since the last command
    prevGrid,   \* history: the previous frame, when no command moved the camera since
    color,      \* Pixel::new called alone: its argument
    pixel,      \* Pixel::new called alone: its result
    point,      \* find_nearest called alone: its argument
    near        \* find_nearest called alone: the results of the calls so far

vars == <<scene, screen, pc, i, j, march, window, grid, status, display, ch, writes,
          prevGrid, color, pixel, point, near>>

mainVars == <<scene, screen, i, j, march, window, grid, status, display, ch, writes,
              prevGrid>>

Cells(self) == (0 .. self.w - 1) \X (0 .. self.h - 1)

KEY_UP == "KEY_UP"
KEY_DOWN == "KEY_DOWN"
KEY_LEFT == "KEY_LEFT"
KEY_RIGHT == "KEY_RIGHT"
KEY_NPAGE == "KEY_NPAGE"
KEY_PPAGE == "KEY_PPAGE"
\* any key the match does not name
KEY_OTHER == "other"
NoKey == "none"

Keys == {KEY_UP, KEY_DOWN, KEY_LEFT, KEY_RIGHT, KEY_NPAGE, KEY_PPAGE, KEY_OTHER}

\* a wrong match: KEY_UP and KEY_DOWN exchanged
ApplyKeySwapped(self, key) ==
    CASE key = KEY_UP    -> [self EXCEPT !.position.y = FAdd(@, One)]
      [] key = KEY_DOWN  -> [self EXCEPT !.position.y = FSub(@, One)]
      [] key = KEY_LEFT  -> [self EXCEPT !.position.x = FSub(@, One)]
      [] key = KEY_RIGHT -> [self EXCEPT !.position.x = FAdd(@, One)]
      [] key = KEY_NPAGE -> [self EXCEPT !.position.z = FSub(@, One)]
      [] key = KEY_PPAGE -> [self EXCEPT !.position.z = FAdd(@, One)]
      [] OTHER -> self

\* the `match ch` of main, on the camera
ApplyKey(self, key) ==
    CASE key = KEY_UP    -> [self EXCEPT !.position.y = FSub(@, One)]
      [] key = KEY_DOWN  -> [self EXCEPT !.position.y = FAdd(@, One)]
      [] key = KEY_LEFT  -> [self EXCEPT !.position.x = FSub(@, One)]
      [] key = KEY_RIGHT -> [self EXCEPT !.position.x = FAdd(@, One)]
      [] key = KEY_NPAGE -> [self EXCEPT !.position.z = FSub(@, One)]
      [] key = KEY_PPAGE -> [self EXCEPT !.position.z = FAdd(@, One)]
      [] OTHER -> self

\* a box of camera positions with a corner at the origin, in world units (the
\* integers that hold f32 values are in the order of the values)
Box == [xmax |-> MaxX, ymax |-> MaxY, zmax |-> MaxZ]
AxisBox == [xmax |-> 0, ymax |-> 0, zmax |-> MaxDepth]

InBox(box, p) ==
    /\ 0 <= p.x /\ p.x <= FromInt(box.xmax)
    /\ 0 <= p.y /\ p.y <= FromInt(box.ymax)
    /\ 0 <= p.z /\ p.z <= FromInt(box.zmax)

NoMarch == [pixel |-> Pixel_default, hit |-> FALSE, panic |-> FALSE, trace |-> <<>>]
NoGrid == <<>>
NoStatus == <<>>

\* a window of the camera's size with a blank in every cell
Blank(self) == [c \in Cells(self) |-> " "]

DecimalDigits == <<"0", "1", "2", "3", "4", "5", "6", "7", "8", "9">>

RECURSIVE Decimal(_)
\* the decimal digits of a natural number, the first one first
Decimal(n) ==
    IF n < 10 THEN <<DecimalDigits[n + 1]>>
    ELSE Append(Decimal(n \div 10), DecimalDigits[(n % 10) + 1])

\* format!("{}", a) for an f32 that holds a whole number, which the camera's
\* coordinates do (0.0 moved by 1.0 at a time): the digits, with no fraction
Display_f32(a) ==
    CASE a >= 0 /\ FromInt(AsUsize(a)) = a -> Decimal(AsUsize(a))
      [] a < 0 /\ FromInt(AsUsize(FNeg(a))) = FNeg(a) -> <<"-">> \o Decimal(AsUsize(FNeg(a)))

\* format!("({}, {}, {})", x, y, z), one character per element
FormatPosition(p) ==
    <<"(">> \o Display_f32(p.x) \o <<",", " ">> \o Display_f32(p.y)
            \o <<",", " ">> \o Display_f32(p.z) \o <<")">>

\* mvaddstr(y, x, str) on a window of the camera's size: the characters go to the
\* cells from (y, x) on, a row continuing on the next; the one written to the last
\* cell of the window ends the call (ERR), the rest of the string is not written
MvAddStr(win, self, y, x, str) ==
    [c \in Cells(self) |->
        LET k == (c[2] - y) * self.w + (c[1] - x)
        IN  IF 0 <= k /\ k < Len(str) THEN str[k + 1] ELSE win[c]]

\* the values the variables of the calls made alone keep in main
HarnessIdle ==
    /\ color = Col(Zero, Zero, Zero)
    /\ pixel = Pixel_default
    /\ point = Vector_new
    /\ near = <<>>

\* main up to the first pass of `loop`: initscr leaves the window and the
\* terminal blank
Init ==
    /\ scene = StartupScene
    /\ screen = StartupCamera(Cols, Rows)
    /\ pc = "show"
    /\ i = 0
    /\ j = 0
    /\ march = NoMarch
    /\ window = Blank(StartupCamera(Cols, Rows))
    /\ grid = [c \in Cells(StartupCamera(Cols, Rows)) |-> Pixel_default]
    /\ status = NoStatus
    /\ display = Blank(StartupCamera(Cols, Rows))
    /\ ch = NoKey
    /\ writes = [c \in Cells(StartupCamera(Cols, Rows)) |-> 0]
    /\ prevGrid = NoGrid
    /\ HarnessIdle

\* a wrong loop bound: the pixel loop ends with the first row
ShowLastFirstRow(self, ii, jj) == ii + 1 >= self.w

\* whether (i, j) is the last pixel of the `for j in 0..h { for i in 0..w` loops
ShowLast(self, ii, jj) == ii + 1 >= self.w /\ jj + 1 >= self.h

\* Camera::show, one pixel: the march, then mvaddch(j, i, c)
ShowPixel ==
    /\ pc = "show"
    /\ march' = ShowPixelResult(screen, scene, i, j)
    /\ IF march'.panic
       THEN /\ pc' = "panicked"
            /\ UNCHANGED <<window, grid, writes, i, j>>
       ELSE /\ window' = [window EXCEPT ![<<i, j>>] = march'.pixel]
            /\ grid' = [grid EXCEPT ![<<i, j>>] = march'.pixel]
            /\ writes' = [writes EXCEPT ![<<i, j>>] = @ + 1]
            /\ i' = IF i + 1 < screen.w THEN i + 1 ELSE 0
            /\ j' = IF i + 1 < screen.w THEN j
                    ELSE IF ShowLast(screen, i, j) THEN 0 ELSE j + 1
            /\ pc' = IF ShowLast(screen, i, j) THEN "status" ELSE "show"
    /\ UNCHANGED <<scene, screen, status, display, ch, prevGrid, color, pixel, point, near>>

\* mvaddstr(0, 0, format!("({}, {}, {})", x, y, z))
Status ==
    /\ pc = "status"
    /\ status' = FormatPosition(screen.position)
    /\ window' = MvAddStr(window, screen, 0, 0, status')
    /\ pc' = "refresh"
    /\ UNCHANGED <<scene, screen, i, j, march, grid, display, ch, writes, prevGrid,
                   color, pixel, point, near>>

\* ncurses::refresh()
Refresh ==
    /\ pc = "refresh"
    /\ display' = window
    /\ pc' = "getch"
    /\ UNCHANGED <<scene, screen, i, j, march, window, grid, status, ch, writes, prevGrid,
                   color, pixel, point, near>>

\* let ch = ncurses::getch(), the keys being those that keep the camera in `box`
GetCh(box) ==
    /\ pc = "getch"
    /\ \E key \in Keys :
          /\ InBox(box, ApplyKey(screen, key).position)
          /\ ch' = key
    /\ pc' = "apply"
    /\ UNCHANGED <<scene, screen, i, j, march, window, grid, status, display, writes,
                   prevGrid, color, pixel, point, near>>

\* match ch { ... }, and back to the top of `loop`
Apply ==
    /\ pc = "apply"
    /\ screen' = ApplyKey(screen, ch)
    /\ ch' = NoKey
    /\ pc' = "show"
    /\ writes' = [c \in Cells(screen) |-> 0]
    /\ prevGrid' = IF screen' = screen THEN grid ELSE NoGrid
    /\ UNCHANGED <<scene, i, j, march, window, grid, status, display, color, pixel, point,
                   near>>

Next == ShowPixel \/ Status \/ Refresh \/ GetCh(Box) \/ Apply

Spec == Init /\ [][Next]_vars

\* the same program, the user pressing only page-up, page-down and other keys
NextAxis == ShowPixel \/ Status \/ Refresh \/ GetCh(AxisBox) \/ Apply

SpecAxis == Init /\ [][NextAxis]_vars

(* ------------------------------------------------------------------ *)
(* Pixel::new and Camera::find_nearest called alone                    *)
(* ------------------------------------------------------------------ *)

\* main's variables while a function is called alone
MainIdle ==
    /\ screen = StartupCamera(Cols, Rows)
    /\ i = 0
    /\ j = 0
    /\ march = NoMarch
    /\ window = NoGrid
    /\ grid = NoGrid
    /\ status = NoStatus
    /\ display = NoGrid
    /\ ch = NoKey
    /\ writes = NoGrid
    /\ prevGrid = NoGrid

Channels == {F32(k, 4) : k \in -MaxChan .. MaxChan}

InitPixel ==
    /\ pc = "call Pixel::new"
    /\ color \in {Col(r, g, b) : r \in Channels, g \in Channels, b \in Channels}
    /\ pixel = Pixel_default
    /\ scene = StartupScene
    /\ point = Vector_new
    /\ near = <<>>
    /\ MainIdle

PixelNewCall ==
    /\ pc = "call Pixel::new"
    /\ pixel' = Pixel_new(color)
    /\ pc' = "Pixel::new returned"
    /\ UNCHANGED <<color, point, near>>
    /\ UNCHANGED mainVars

NextPixel == PixelNewCall

SpecPixel == InitPixel /\ [][NextPixel]_vars

\* the spheres of the scenes find_nearest is called on alone: the two of main, two
\* as far from the origin as the first (one beside it, one behind it), and a small
\* one around the origin
HarnessSpheres ==
    { Sphere(Vec(Zero, Zero, FromInt(50)), FromInt(5), RED),
      Sphere(Vec(FromInt(-20), Zero, FromInt(30)), FromInt(2), RED),
      Sphere(Vec(FromInt(30), FromInt(40), Zero), FromInt(5), GREEN),
      Sphere(Vec(Zero, Zero, FromInt(-50)), FromInt(5), BLUE),
      Sphere(Vec(Zero, Zero, Zero), One, BLUE) }

RECURSIVE SeqsUpTo(_, _)
\* the sequences over S of length at most n
SeqsUpTo(S, n) ==
    IF n = 0 THEN {<<>>}
    ELSE LET shorter == SeqsUpTo(S, n - 1)
         IN  shorter \union {Append(q, e) : q \in shorter, e \in S}

HarnessPoints ==
    { Vector_new, Vec(Zero, Zero, FromInt(50)), Vec(FromInt(-10), Zero, FromInt(40)),
      Vec(FromInt(3), FromInt(-4), Zero), Vec(Zero, Zero, FromInt(-45)) }

InitNearest ==
    /\ pc = "call find_nearest"
    /\ scene \in {[objects |-> objs, lights |-> StartupScene.lights] :
                     objs \in SeqsUpTo(HarnessSpheres, MaxObjects)}
    /\ point \in HarnessPoints
    /\ near = <<>>
    /\ color = Col(Zero, Zero, Zero)
    /\ pixel = Pixel_default
    /\ MainIdle

\* one call of Camera::find_nearest(scene, point); a panic ends the run
FindNearestCall ==
    /\ pc = "call find_nearest"
    /\ Len(near) < MaxCalls
    /\ IF Camera_find_nearest(scene, point) = Panic
       THEN pc' = "panicked" /\ near' = near
       ELSE pc' = pc /\ near' = Append(near, Camera_find_nearest(scene, point))
    /\ UNCHANGED <<color, pixel, point>>
    /\ UNCHANGED mainVars

NextNearest == FindNearestCall

SpecNearest == InitNearest /\ [][NextNearest]_vars

\* main, or find_nearest called alone
InitMainOrNearest == Init \/ InitNearest

NextMainOrNearest == Next \/ NextNearest

SpecMainOrNearest == InitMainOrNearest /\ [][NextMainOrNearest]_vars

(* ------------------------------------------------------------------ *)
(* The claims                                                          *)
(* ------------------------------------------------------------------ *)

\* the move the interface documents for each command, in world units
C1_Move(key) ==
    CASE key = KEY_UP    -> Vec(0, -1, 0)
      [] key = KEY_DOWN  -> Vec(0, 1, 0)
      [] key = KEY_LEFT  -> Vec(-1, 0, 0)
      [] key = KEY_RIGHT -> Vec(1, 0, 0)
      [] key = KEY_NPAGE -> Vec(0, 0, -1)
      [] key = KEY_PPAGE -> Vec(0, 0, 1)
      [] OTHER -> Vec(0, 0, 0)

\* the whole number an f32 holds, for 1 <= |a| < 2^24 or a = 0
C1_Whole(a) ==
    IF Abs(a) < One THEN 0 ELSE Sgn(a) * (Unpack(a).m \div 2^(-Unpack(a).e))

\* coordinate `to` is the whole number one `by` above the whole number `from`
C1_Moved(from, to, by) ==
    /\ FromInt(C1_Whole(from)) = from
    /\ FromInt(C1_Whole(to)) = to
    /\ C1_Whole(to) = C1_Whole(from) + by

\* C1: every applied command moves the camera by exactly one unit on exactly one
\* axis (up y-1, down y+1, left x-1, right x+1, page-down z-1, page-up z+1), an
\* unrecognised command moves nothing, and no step ever changes the camera's
\* width, height or field of view, or the scene.
C1_CommandMovesOneUnit ==
    [][ /\ scene' = scene
        /\ screen'.w = screen.w
        /\ screen'.h = screen.h
        /\ screen'.fov = screen.fov
        /\ pc = "apply" =>
              /\ C1_Moved(screen.position.x, screen'.position.x, C1_Move(ch).x)
              /\ C1_Moved(screen.position.y, screen'.position.y, C1_Move(ch).y)
              /\ C1_Moved(screen.position.z, screen'.position.z, C1_Move(ch).z) ]_vars

\* C1 witness: the camera after commands that sum to 5 units right, nothing else
\* changed since startup
C1_FiveRight ==
    /\ pc = "show"
    /\ screen = [StartupCamera(Cols, Rows) EXCEPT !.position = Vec(FromInt(5), Zero, Zero)]
    /\ scene = StartupScene

C2_Decimals == <<"0", "1", "2", "3", "4", "5", "6", "7", "8", "9">>

RECURSIVE C2_Digits(_)
\* a whole number in decimal, one character per element
C2_Digits(n) ==
    IF n < 0 THEN <<"-">> \o C2_Digits(-n)
    ELSE IF n < 10 THEN <<C2_Decimals[n + 1]>>
    ELSE Append(C2_Digits(n \div 10), C2_Decimals[(n % 10) + 1])

\* the step that follows each step of `loop`
C2_After(at) ==
    CASE at = "show"    -> {"show", "status"}
      [] at = "status"  -> {"refresh"}
      [] at = "refresh" -> {"getch"}
      [] at = "getch"   -> {"apply"}
      [] at = "apply"   -> {"show"}

\* the status line of the camera's position, its coordinates being whole numbers
C2_StatusLine ==
    <<"(">> \o C2_Digits(C1_Whole(screen.position.x)) \o <<",", " ">>
            \o C2_Digits(C1_Whole(screen.position.y)) \o <<",", " ">>
            \o C2_Digits(C1_Whole(screen.position.z)) \o <<")">>

\* C2: each pass of the main loop renders all width x height pixels, then writes
\* the status line, then refreshes, then reads one command, then applies it; when
\* a command is read every pixel has been written exactly once since the last
\* command was applied, and the terminal shows the window: the frame's glyphs with
\* the status line of the camera's position written over them from the top left
\* corner on; the camera position changes only in the apply step.
C2_FrameBeforeInput ==
    /\ [](/\ \A c \in Cells(screen) : writes[c] <= 1
          /\ pc \in {"status", "refresh", "getch"} => \A c \in Cells(screen) : writes[c] = 1
          /\ pc = "getch" =>
                /\ display = window
                /\ window = MvAddStr(grid, screen, 0, 0, status)
                /\ status = C2_StatusLine)
    /\ [][ /\ pc' \in C2_After(pc)
           /\ screen'.position # screen.position => pc = "apply" ]_vars

\* C2 witness: a command is about to be read, after a command that moved the camera
\* and a whole frame since
C2_FrameComplete ==
    /\ pc = "getch"
    /\ screen.position # Vector_new
    /\ \A c \in Cells(screen) : writes[c] = 1
    /\ \E c \in Cells(screen) : grid[c] # Pixel_default

\* C8: a frame rendered again with no command having moved the camera in between
\* (an unrecognised key was read) shows the same glyph at every pixel as the frame
\* before it.
C8_SameFrameTwice ==
    (pc \in {"status", "refresh", "getch", "apply"} /\ prevGrid # NoGrid) => grid = prevGrid

\* C8 witness: the second of two frames of one camera is complete, away from the
\* startup position, and shows a sphere
C8_SecondFrameDone ==
    /\ pc = "status"
    /\ prevGrid # NoGrid
    /\ screen.position # Vector_new
    /\ \E c \in Cells(screen) : grid[c] # Pixel_default

\* the march held in `march` is that of a pixel of the frame being drawn
C9_MarchFresh == pc # "panicked" /\ \E c \in DOMAIN writes : writes[c] > 0

\* the pixel whose march `march` holds: the one before (i, j), or the last one
C9_Cell ==
    IF pc = "show"
    THEN IF i > 0 THEN <<i - 1, j>> ELSE <<screen.w - 1, j - 1>>
    ELSE <<screen.w - 1, screen.h - 1>>

\* d is the least distance from point p to an object of the scene, and object n
\* is at that distance
C9_Nearest(p, n, d) ==
    /\ Sphere_distance(scene.objects[n], p) = d
    /\ \A k \in 1 .. Len(scene.objects) : ~FLt(Sphere_distance(scene.objects[k], p), d)

\* the ray direction of the pixel, scaled to length d
C9_Along(dir, d) == Vector_scale(dir, FDiv(d, Vector_magnitude(dir)))

C9_MarchOf(tr, dir) ==
    /\ Len(tr) >= 1
    /\ Len(tr) <= 10
    /\ tr[1].point = screen.position
    /\ \A k \in 1 .. Len(tr) :
          C9_Nearest(tr[k].point, tr[k].obj, tr[k].dist)
    /\ \A k \in 1 .. Len(tr) - 1 :
          /\ ~FLt(tr[k].dist, F32(1, 10))
          /\ tr[k + 1].point = Vector_add(tr[k].point, C9_Along(dir, tr[k].dist))
    /\ march.hit <=> FLt(tr[Len(tr)].dist, F32(1, 10))
    /\ march.hit =>
          march.pixel = Pixel_new(Sphere_shade(scene.objects[tr[Len(tr)].obj],
                                               PixelRay(screen, C9_Cell[1], C9_Cell[2]),
                                               tr[Len(tr)].point, scene.lights))
    /\ ~march.hit => Len(tr) = 10 /\ march.pixel = " "
    /\ grid[C9_Cell] = march.pixel

\* C9: the march of every pixel makes at most 10 nearest-object queries, the first
\* at the camera position; it stops at the first query whose minimum distance is
\* below 0.1, and the pixel is then the quantized shade of that nearest object at
\* that point; before that each query's point is the one before it moved along the
\* normalised ray direction by that query's minimum distance; a march of 10 queries
\* without a minimum below 0.1 leaves the background glyph.
C9_MarchOfPixel ==
    C9_MarchFresh =>
        C9_MarchOf(march.trace, PixelRay(screen, C9_Cell[1], C9_Cell[2]).direction)

\* C9 witness: a pixel hit a sphere after advancing at least twice, in a frame in
\* which an earlier pixel used all its queries and stayed background
C9_HitAfterAdvance ==
    /\ C9_MarchFresh
    /\ march.hit
    /\ Len(march.trace) >= 3
    /\ march.pixel \in {"-", "+", "*"}
    /\ \E c \in DOMAIN writes : writes[c] = 1 /\ grid[c] = " "

\* the glyphs from darkest to brightest, as the interface documents them
C4_Palette == <<".", "-", "+", "*", "X", "M">>

\* four times an f32 that is a whole number of quarters, for 1/4 <= |a| < 2^22, or 0
C4_Quarters(a) ==
    IF Abs(a) < F32(1, 4) THEN 0 ELSE Sgn(a) * (Unpack(a).m \div 2^(-Unpack(a).e - 2))

\* twelve times the brightness (r + g + b) / 3 of the colour Pixel::new was called
\* on, in exact arithmetic
C4_Sum == C4_Quarters(color.r) + C4_Quarters(color.g) + C4_Quarters(color.b)

\* C4: for a brightness b = (r + g + b) / 3 with 0 <= b < 1 the quantizer returns
\* the glyph at index floor(b * 6) of the palette; brightness 0.0 gives '.'; every
\* brightness at or above 1.0 gives the background glyph, never 'M'.
C4_Quantizer ==
    pc = "Pixel::new returned" =>
        /\ \A c \in {color.r, color.g, color.b} : F32(C4_Quarters(c), 4) = c
        /\ (0 <= C4_Sum /\ C4_Sum < 12) => pixel = C4_Palette[(6 * C4_Sum) \div 12 + 1]
        /\ C4_Sum = 0 => pixel = "."
        /\ C4_Sum >= 12 => pixel = " "

\* C4 witness: Pixel::new returned the background glyph for brightness exactly 1.0
C4_SaturatedToBackground ==
    /\ pc = "Pixel::new returned"
    /\ C4_Sum = 12
    /\ pixel = " "

\* C5: for a negative brightness Pixel::new returns the background glyph and no
\* palette glyph.
C5_NegativeIsBackground ==
    (pc = "Pixel::new returned" /\ C4_Sum < 0) => pixel = " "

\* the distance of object n of the scene from the point find_nearest was called on
C6_Dist(n) == Sphere_distance(scene.objects[n], point)

\* C6: on a non-empty scene every call of find_nearest returns an object at the
\* least distance of all objects, its distance, and, of the objects at that least
\* distance, the first in scene order; repeated calls return the same.
C6_NearestFirstMinimum ==
    \A k \in 1 .. Len(near) :
        /\ near[k].obj \in 1 .. Len(scene.objects)
        /\ near[k].dist = C6_Dist(near[k].obj)
        /\ \A n \in 1 .. Len(scene.objects) : ~FLt(C6_Dist(n), near[k].dist)
        /\ \A n \in 1 .. near[k].obj - 1 : FLt(near[k].dist, C6_Dist(n))
        /\ near[k] = near[1]

\* C6 witness: two calls returned, on a scene whose last object is as near as the
\* one returned
C6_TieReturnedFirst ==
    /\ Len(near) = 2
    /\ Len(scene.objects) = 3
    /\ near[2].obj < 3
    /\ C6_Dist(3) = near[2].dist

\* C7: find_nearest on a scene of no objects ends in a panic and returns no object
\* and distance; and main never runs the query on an empty object list (nor panics).
C7_EmptySceneRejected ==
    /\ [](/\ scene.objects = <<>> => near = <<>>
          /\ pc \in {"show", "status", "refresh", "getch", "apply"} => scene.objects # <<>>
          /\ pc = "panicked" => (scene.objects = <<>> /\ march = NoMarch))
    /\ [][(pc = "call find_nearest" /\ scene.objects = <<>>) =>
             (pc' = "panicked" /\ near' = <<>>)]_vars

\* C7 witness: the call on the empty scene has panicked
C7_PanickedOnEmpty ==
    /\ pc = "panicked"
    /\ scene.objects = <<>>
    /\ near = <<>>

\* the point and the object of the hit `march` records
C3_HitPoint == march.trace[Len(march.trace)].point
C3_HitObject == scene.objects[march.trace[Len(march.trace)].obj]

\* C3: no frame normalises a zero-length vector without failing: whenever a pixel
\* is shaded (the program has not panicked), neither the hit point minus the
\* sphere's centre nor a light's position minus the hit point has length zero, and
\* the ray direction never has.
C3_NoSilentZeroNormalize ==
    C9_MarchFresh =>
        /\ Vector_magnitude(PixelRay(screen, C9_Cell[1], C9_Cell[2]).direction) # 0
        /\ march.hit =>
              /\ Vector_magnitude(Vector_sub(C3_HitPoint, C3_HitObject.center)) # 0
              /\ \A k \in 1 .. Len(scene.lights) :
                    Vector_magnitude(Vector_sub(scene.lights[k].position, C3_HitPoint)) # 0

\* the brightness of the shade of the hit `march` records
C10_Brightness ==
    Brightness(Sphere_shade(C3_HitObject, PixelRay(screen, C9_Cell[1], C9_Cell[2]),
                            C3_HitPoint, scene.lights))

\* C10: with the startup scene every shaded hit has a brightness between 0.1 and
\* 0.6, and its pixel shows one of '.', '-', '+', '*'.
C10_HitBrightnessRange ==
    (C9_MarchFresh /\ march.hit) =>
        /\ ~IsNaN(C10_Brightness)
        /\ ~FLt(C10_Brightness, F32(1, 10))
        /\ ~FLt(F32(6, 10), C10_Brightness)
        /\ march.pixel \in {".", "-", "+", "*"}
        /\ grid[C9_Cell] = march.pixel

====
